---- MODULE Spec2Model ----
(***************************************************************************)
(* The flexstack client facades: TextGeneration, AudioGeneration,          *)
(* ImageGeneration and FlexstackInfo.  A caller is idle, makes one call,   *)
(* observes its outcome (and, for the streaming call, drives the returned  *)
(* generator), and drops the result before the next call.                  *)
(*                                                                         *)
(* Values.  A Python float literal is carried as the string of its         *)
(* literal ("0.9"), a dict as a function on its keys, a URL as the         *)
(* sequence of its "/"-separated parts after the base URL.                 *)
(***************************************************************************)
EXTENDS Integers, Sequences, FiniteSets, TLC

VARIABLES
    base_url,         \* self.base_url of the facades
    default_headers,  \* the dict object bound to the default `headers = {}`
    caller_headers,   \* the dict object the caller passes when it gives headers
    earlier,          \* history: how the calls already dropped passed headers
    pc,               \* "idle" | "called": the caller's position
    call,             \* the call in progress: its name and arguments
    sent,             \* the requests handed to requests.post / requests.get by the call
    outcome,          \* how the call (or the last next() on its generator) ended
    response,         \* what the transport answered to the request, if one was sent
    gen,              \* the generator of generate_text_stream
    conn,             \* the connection of the streamed response
    opened,           \* how many streamed connections the call has opened
    yielded,          \* the lines the generator has yielded so far
    pos               \* index of the next line of the body iter_lines will produce

vars == <<base_url, default_headers, caller_headers, earlier, pc, call, sent, outcome, response,
          gen, conn, opened, yielded, pos>>

---------------------------------------------------------------------------
(* Bounds of the model. *)

\* longest messages list a caller passes
MaxMsgs == 2
\* most lines a streamed response body has
MaxLines == 3

---------------------------------------------------------------------------
(* Callers' inputs. *)

EmptyDict == [k \in {} |-> ""]

\* the keys a message dict may carry: the two expected ones and an extra one
MessageKeys == {"role", "content", "name"}
\* the roles a caller may write: the three accepted ones and one that is not
RoleValues == {"system", "user", "assistant", "tool"}

MessageDict(K, r) ==
    [k \in K |-> IF k = "role" THEN r ELSE IF k = "content" THEN "Hello" ELSE "bob"]

\* an element of a messages list: a dict, or a value that is no dict (a str)
Elements ==
    {[isDict |-> TRUE, d |-> MessageDict(K, r)] : K \in SUBSET MessageKeys, r \in RoleValues}
    \cup {[isDict |-> FALSE, d |-> EmptyDict]}

ElementSeqs == UNION {[1..n -> Elements] : n \in 0..MaxMsgs}

\* a messages argument: a list, or another iterable of the same items (a tuple)
MessagesValues == {[isList |-> l, items |-> s] : l \in BOOLEAN, s \in ElementSeqs}

\* the headers argument: omitted, or the caller's dict, which the caller
\* first fills with SuppliedHeaders and passes again on later calls
SuppliedHeaders == [Authorization |-> "Bearer t"]
HeaderArgs == {[given |-> FALSE, value |-> EmptyDict],
               [given |-> TRUE, value |-> caller_headers]}

\* the keyword arguments a caller passed: some of `names`, each with value[name]
Passed(names, value) == {[k \in K |-> value[k]] : K \in SUBSET names}

\* dict.update: d with the items of u written over it
Update(d, u) == [k \in DOMAIN d \cup DOMAIN u |-> IF k \in DOMAIN u THEN u[k] ELSE d[k]]

\* d[key] = v
SetItem(d, key, v) == Update(d, [k \in {key} |-> v])

---------------------------------------------------------------------------
(* The transport (requests.post / requests.get) and its answers. *)

Statuses == {200, 304, 404, 500}
LineValues == {"", "a", "b"}
Bodies == UNION {[1..n -> LineValues] : n \in 0..MaxLines}

NoReply == [failed |-> FALSE, status |-> 0, is_json |-> FALSE, lines |-> <<>>]

\* answers to a plain call: the transport fails, or a status and a body that
\* decodes as JSON or does not
PlainReplies ==
    {[failed |-> TRUE, status |-> 0, is_json |-> FALSE, lines |-> <<>>]}
    \cup {[failed |-> FALSE, status |-> s, is_json |-> j, lines |-> <<>>] :
             s \in Statuses, j \in BOOLEAN}

\* answers to a streamed call: the transport fails, or a status and body lines
StreamReplies ==
    {[failed |-> TRUE, status |-> 0, is_json |-> FALSE, lines |-> <<>>]}
    \cup {[failed |-> FALSE, status |-> s, is_json |-> FALSE, lines |-> b] :
             s \in Statuses, b \in Bodies}

Request(method, url, json, headers, stream) ==
    [method |-> method, url |-> url, json |-> json, headers |-> headers, stream |-> stream]

\* the headers a call sends: the caller's dict, or the default object
HeadersOf(h) == IF h.given THEN h.value ELSE default_headers

\* PassHeaders for a method that stamps a content type into the dict first
PassHeadersStamped(headers) ==
    [k \in DOMAIN headers \cup {"Content-Type"} |->
        IF k = "Content-Type" THEN "application/json" ELSE headers[k]]

\* the headers dict after a method has used it: the methods only hand it on
\* (headers=headers) and write nothing into it
PassHeaders(headers) == headers

\* what sending a request with the headers argument h does to the two dict
\* objects it may be bound to
UseHeaders(h) ==
    /\ default_headers' = IF h.given THEN default_headers ELSE PassHeaders(default_headers)
    /\ caller_headers' = IF h.given THEN PassHeaders(caller_headers) ELSE caller_headers

\* JsonOutcome as it would be with response.raise_for_status() before .json()
JsonOutcomeRaising(reply) ==
    IF reply.failed THEN "ConnectionError"
    ELSE IF 400 <= reply.status /\ reply.status < 600 THEN "HTTPError"
    ELSE IF reply.is_json THEN "returned"
    ELSE "JSONDecodeError"

\* response.json() of a plain call: the decoded body, or a decode error;
\* the status is not looked at
JsonOutcome(reply) ==
    IF reply.failed THEN "ConnectionError"
    ELSE IF reply.is_json THEN "returned"
    ELSE "JSONDecodeError"

---------------------------------------------------------------------------
(* TextGeneration.text_generation *)

\* the body of the validation loop for one message
TextGenerationCheckOne(e) ==
    IF ~e.isDict THEN "AttributeError"                  \* message.keys()
    ELSE IF DOMAIN e.d # {"role", "content"} THEN "ValueError"
    ELSE IF e.d["role"] \notin {"system", "user", "assistant"} THEN "ValueError"
    ELSE "ok"

RECURSIVE TextGenerationLoop(_, _)
TextGenerationLoop(items, i) ==
    IF i > Len(items) THEN "ok"
    ELSE IF TextGenerationCheckOne(items[i]) # "ok" THEN TextGenerationCheckOne(items[i])
    ELSE TextGenerationLoop(items, i + 1)

\* the validation of text_generation: "ok" or the exception it raises
TextGenerationCheck(messages) ==
    IF ~messages.isList THEN "ValueError"
    ELSE TextGenerationLoop(messages.items, 1)

TextArgs ==
    {[model |-> m, temperature |-> "0.7", top_k |-> 50, top_p |-> "0.95", max_tokens |-> t] :
        <<m, t>> \in {<<"gemma-7b", 256>>, <<"llama", 16>>}}

TextConfigs(a) ==
    [model |-> a.model, temperature |-> a.temperature, top_k |-> a.top_k,
     top_p |-> a.top_p, max_new_tokens |-> a.max_tokens]

TextPayload(messages, a) == [messages |-> messages, configs |-> TextConfigs(a)]

Plain(op, args, requests, result, reply) ==
    /\ pc' = "called"
    /\ call' = [op |-> op, args |-> args]
    /\ sent' = requests
    /\ outcome' = result
    /\ response' = reply
    /\ IF requests = <<>>
       THEN UNCHANGED <<default_headers, caller_headers>>
       ELSE UseHeaders(args.headers)
    /\ UNCHANGED <<base_url, earlier, gen, conn, opened, yielded, pos>>

text_generation ==
    /\ pc = "idle"
    /\ \E m \in MessagesValues, a \in TextArgs, h \in HeaderArgs :
        LET args == [messages |-> m, configs |-> a, headers |-> h] IN
        \/ /\ TextGenerationCheck(m) # "ok"
           /\ Plain("text_generation", args, <<>>, TextGenerationCheck(m), NoReply)
        \/ /\ TextGenerationCheck(m) = "ok"
           /\ \E reply \in PlainReplies :
                Plain("text_generation", args,
                      <<Request("POST", <<base_url, "ai", "text_completion">>,
                                TextPayload(m, a), HeadersOf(h), FALSE)>>,
                      JsonOutcome(reply), reply)

---------------------------------------------------------------------------
(* TextGeneration.generate_text_stream: a generator function.  The call only *)
(* creates the generator; its body runs when the caller asks for a line.     *)

\* the body of the validation loop for one message
GenerateTextStreamCheckOne(e) ==
    IF ~e.isDict THEN "AttributeError"                  \* message.keys()
    ELSE IF DOMAIN e.d # {"role", "content"} THEN "ValueError"
    ELSE IF e.d["role"] \notin {"system", "user", "assistant"} THEN "ValueError"
    ELSE "ok"

RECURSIVE GenerateTextStreamLoop(_, _)
GenerateTextStreamLoop(items, i) ==
    IF i > Len(items) THEN "ok"
    ELSE IF GenerateTextStreamCheckOne(items[i]) # "ok"
         THEN GenerateTextStreamCheckOne(items[i])
    ELSE GenerateTextStreamLoop(items, i + 1)

\* GenerateTextStreamCheck without the isinstance test
GenerateTextStreamCheckNoList(messages) == GenerateTextStreamLoop(messages.items, 1)

\* the validation of generate_text_stream: "ok" or the exception it raises
GenerateTextStreamCheck(messages) ==
    IF ~messages.isList THEN "ValueError"
    ELSE GenerateTextStreamLoop(messages.items, 1)

\* response.raise_for_status(): raises HTTPError for a 4xx or 5xx status
RaiseForStatus(status) == 400 <= status /\ status < 600

\* Truthy for a loop that yields every line
TruthyAlways(line) == TRUE

\* `if line:`
Truthy(line) == line # ""

\* the `for line in response.iter_lines(): if line:` loop resumed at line p:
\* the index of the line it yields next, 0 when the body ends first
RECURSIVE NextLine(_, _)
NextLine(lines, p) ==
    IF p > Len(lines) THEN 0
    ELSE IF Truthy(lines[p]) THEN p
    ELSE NextLine(lines, p + 1)

\* ExitWith for a response that is not closed on leaving
ExitWithLeak(c) == c

\* leaving the `with requests.post(...) as response:` block closes the response
ExitWith(c) == "closed"

generate_text_stream ==
    /\ pc = "idle"
    /\ \E m \in MessagesValues, a \in TextArgs, h \in HeaderArgs :
        call' = [op |-> "generate_text_stream",
                 args |-> [messages |-> m, configs |-> a, headers |-> h]]
    /\ pc' = "called"
    /\ gen' = "created"
    /\ outcome' = "generator"
    /\ UNCHANGED <<base_url, default_headers, caller_headers, earlier, sent, response,
                   conn, opened, yielded, pos>>

\* the generator raises: nothing more is yielded
StreamRaise(exception, c) ==
    /\ gen' = "raised"
    /\ outcome' = exception
    /\ conn' = c
    /\ UNCHANGED <<yielded, pos>>

\* the loop over the lines runs from line p, on connection c, to its next
\* yield or to the end of the body; or the transport breaks before the end
StreamAdvance(lines, p, c) ==
    \/ /\ NextLine(lines, p) # 0
       /\ gen' = "suspended"
       /\ outcome' = "yielded"
       /\ yielded' = Append(yielded, lines[NextLine(lines, p)])
       /\ pos' = NextLine(lines, p) + 1
       /\ conn' = c
    \/ /\ NextLine(lines, p) = 0
       /\ gen' = "finished"
       /\ outcome' = "StopIteration"
       /\ conn' = ExitWith(c)
       /\ pos' = Len(lines) + 1
       /\ UNCHANGED yielded
    \/ /\ p <= Len(lines)
       /\ StreamRaise("ChunkedEncodingError", ExitWith(c))

\* next(generator) for the first time: the body runs from its first line
StreamStart ==
    /\ pc = "called"
    /\ gen = "created"
    /\ LET m == call.args.messages
           a == call.args.configs
           h == call.args.headers
       IN
        \/ /\ GenerateTextStreamCheck(m) # "ok"
           /\ StreamRaise(GenerateTextStreamCheck(m), conn)
           /\ UNCHANGED <<sent, response, opened, default_headers, caller_headers>>
        \/ /\ GenerateTextStreamCheck(m) = "ok"
           /\ \E reply \in StreamReplies :
                /\ sent' = Append(sent,
                                  Request("POST", <<base_url, "ai", "text_completion?stream=true">>,
                                          TextPayload(m, a), HeadersOf(h), TRUE))
                /\ response' = reply
                /\ UseHeaders(h)
                /\ \/ /\ reply.failed
                      /\ StreamRaise("ConnectionError", conn)
                      /\ UNCHANGED opened
                   \/ /\ ~reply.failed
                      /\ opened' = opened + 1
                      /\ \/ /\ RaiseForStatus(reply.status)
                            /\ StreamRaise("HTTPError", ExitWith("open"))
                         \/ /\ ~RaiseForStatus(reply.status)
                            /\ StreamAdvance(reply.lines, 1, "open")
    /\ UNCHANGED <<base_url, earlier, pc, call>>

\* next(generator) again: the body resumes after its yield
StreamNext ==
    /\ pc = "called"
    /\ gen = "suspended"
    /\ StreamAdvance(response.lines, pos, conn)
    /\ UNCHANGED <<base_url, default_headers, caller_headers, earlier, pc, call, sent,
                   response, opened>>

\* generator.close(), also what finalising an abandoned generator does: a
\* generator that never ran just ends, a suspended one gets GeneratorExit at
\* its yield and leaves the with block
StreamClose ==
    /\ pc = "called"
    /\ gen \in {"created", "suspended"}
    /\ gen' = "closed"
    /\ conn' = IF gen = "suspended" THEN ExitWith(conn) ELSE conn
    /\ UNCHANGED <<base_url, default_headers, caller_headers, earlier, pc, call, sent,
                   outcome, response, opened, yielded, pos>>

---------------------------------------------------------------------------
(* AudioGeneration.create_txt2audio and result_txt2audio *)

AudioModels == {"audiogen", "musicgen", "bark", "foo"}
AudioKwargValue == [duration |-> 30, top_k |-> 99, top_p |-> "0.5", volume |-> 3]
AudioKwargs == Passed({"duration", "top_k", "top_p", "volume"}, AudioKwargValue)

DefaultDuration == 5
DefaultTopK == 15
DefaultTopP == "0.9"

\* KwargsValids with bark taking a duration
KwargsValidsBarkDuration ==
    [audiogen |-> {"duration", "top_k", "top_p"},
     musicgen |-> {"duration", "top_k", "top_p"},
     bark |-> {"duration"}]

\* the table _kwargs_valids
KwargsValids ==
    [audiogen |-> {"duration", "top_k", "top_p"},
     musicgen |-> {"duration", "top_k", "top_p"},
     bark |-> {}]

\* the loop over kwargs.items(): "ok" or the exception it raises; the table is
\* indexed by the model only inside the loop
AudioCheck(model, kwargs) ==
    IF DOMAIN kwargs = {} THEN "ok"
    ELSE IF model \notin DOMAIN KwargsValids THEN "KeyError"
    ELSE IF \E k \in DOMAIN kwargs : k \notin KwargsValids[model] THEN "ValueError"
    ELSE "ok"

\* Backfill that writes the default over the caller's value
BackfillOverwrite(kwargs, name, default) == SetItem(kwargs, name, default)

\* kwargs[name] = default if name not in kwargs else kwargs[name]
Backfill(kwargs, name, default) ==
    SetItem(kwargs, name, IF name \notin DOMAIN kwargs THEN default ELSE kwargs[name])

AudioDefaults(model, kwargs) ==
    IF model = "audiogen" \/ model = "musicgen"
    THEN Backfill(Backfill(Backfill(kwargs, "duration", DefaultDuration),
                           "top_k", DefaultTopK), "top_p", DefaultTopP)
    ELSE kwargs

AudioConfigs(model, kwargs) == Update([model |-> model], AudioDefaults(model, kwargs))

AudioPayload(prompt, model, kwargs) ==
    [prompt |-> prompt, configs |-> AudioConfigs(model, kwargs)]

create_txt2audio ==
    /\ pc = "idle"
    /\ \E model \in AudioModels, kwargs \in AudioKwargs, h \in HeaderArgs :
        LET args == [prompt |-> "a song", model |-> model, kwargs |-> kwargs, headers |-> h] IN
        \/ /\ AudioCheck(model, kwargs) # "ok"
           /\ Plain("create_txt2audio", args, <<>>, AudioCheck(model, kwargs), NoReply)
        \/ /\ AudioCheck(model, kwargs) = "ok"
           /\ \E reply \in PlainReplies :
                Plain("create_txt2audio", args,
                      <<Request("POST", <<base_url, "ai", "audio_generation">>,
                                AudioPayload("a song", model, kwargs), HeadersOf(h), FALSE)>>,
                      JsonOutcome(reply), reply)

TaskIds == {"t1", "t2"}

result_txt2audio ==
    /\ pc = "idle"
    /\ \E task_id \in TaskIds, h \in HeaderArgs, reply \in PlainReplies :
        Plain("result_txt2audio", [task_id |-> task_id, headers |-> h],
              <<Request("GET", <<base_url, "ai", "audio_generation", task_id>>,
                        EmptyDict, HeadersOf(h), FALSE)>>,
              JsonOutcome(reply), reply)

---------------------------------------------------------------------------
(* FlexstackInfo.get_models *)

TaskNames == {"image_generation", "video_generation", "text_completion",
              "audio_generation", "text_embedding", "bogus", "text_generation"}

\* GetModelsCheck with text_embedding missing from the list
GetModelsCheckShort(task) ==
    IF task \notin {"image_generation", "video_generation", "text_completion",
                    "audio_generation"}
    THEN "ValueError"
    ELSE "ok"

\* the membership test of get_models: "ok" or the exception it raises
GetModelsCheck(task) ==
    IF task \notin {"image_generation", "video_generation", "text_completion",
                    "audio_generation", "text_embedding"}
    THEN "ValueError"
    ELSE "ok"

get_models ==
    /\ pc = "idle"
    /\ \E task \in TaskNames, h \in HeaderArgs :
        LET args == [task |-> task, headers |-> h] IN
        \/ /\ GetModelsCheck(task) # "ok"
           /\ Plain("get_models", args, <<>>, GetModelsCheck(task), NoReply)
        \/ /\ GetModelsCheck(task) = "ok"
           /\ \E reply \in PlainReplies :
                Plain("get_models", args,
                      <<Request("GET", <<base_url, "models", task>>,
                                EmptyDict, HeadersOf(h), FALSE)>>,
                      JsonOutcome(reply), reply)

---------------------------------------------------------------------------
(* ImageGeneration.create_txt2img and result_txt2img *)

Txt2ImgNames == {"model", "lora", "width", "height", "steps", "seed",
                 "negative_prompt", "enhance_prompt"}

\* what a caller passes for an argument it does not omit
Txt2ImgValue ==
    [model |-> "sd3", lora |-> "anime", width |-> 512, height |-> 768, steps |-> 20,
     seed |-> 42, negative_prompt |-> "blurry", enhance_prompt |-> TRUE]
Txt2ImgArgs == Passed(Txt2ImgNames, Txt2ImgValue)

\* the defaults of the signature
Txt2ImgDefaults ==
    [model |-> "sdxl-lightning", lora |-> "", width |-> 1024, height |-> 1024, steps |-> 8,
     seed |-> -1, negative_prompt |-> "", enhance_prompt |-> FALSE]

\* the parameters as bound on entry: the passed value, else the default
Txt2ImgParams(passed) == Update(Txt2ImgDefaults, passed)

\* configs = dict(model=..., lora=..., height=..., ưidth=width, ...)
Txt2ImgConfigs(p) ==
    [k \in {"model", "lora", "height", "ưidth", "steps", "negative_prompt", "seed",
            "enhance_prompt"} |-> IF k = "ưidth" THEN p["width"] ELSE p[k]]

Txt2ImgPayload(prompt, passed) ==
    [prompt |-> prompt, configs |-> Txt2ImgConfigs(Txt2ImgParams(passed))]

create_txt2img ==
    /\ pc = "idle"
    /\ \E passed \in Txt2ImgArgs, h \in HeaderArgs, reply \in PlainReplies :
        Plain("create_txt2img", [prompt |-> "a cat", passed |-> passed, headers |-> h],
              <<Request("POST", <<base_url, "ai", "image_generation">>,
                        Txt2ImgPayload("a cat", passed), HeadersOf(h), FALSE)>>,
              JsonOutcome(reply), reply)

result_txt2img ==
    /\ pc = "idle"
    /\ \E task_id \in TaskIds, h \in HeaderArgs, reply \in PlainReplies :
        Plain("result_txt2img", [task_id |-> task_id, headers |-> h],
              <<Request("GET", <<base_url, "ai", "image_generation", task_id>>,
                        EmptyDict, HeadersOf(h), FALSE)>>,
              JsonOutcome(reply), reply)

---------------------------------------------------------------------------

Discard ==
    /\ pc = "called"
    /\ gen \notin {"created", "suspended"}
    /\ pc' = "idle"
    /\ call' = [op |-> "none", args |-> EmptyDict]
    /\ sent' = <<>>
    /\ outcome' = "none"
    /\ response' = NoReply
    /\ gen' = "none"
    /\ conn' = "none"
    /\ opened' = 0
    /\ yielded' = <<>>
    /\ pos' = 1
    /\ earlier' = earlier \cup {IF call.args.headers.given THEN "supplied" ELSE "omitted"}
    /\ UNCHANGED <<base_url, default_headers, caller_headers>>

Init ==
    /\ base_url = "https://api"
    /\ default_headers = EmptyDict
    /\ caller_headers = SuppliedHeaders
    /\ earlier = {}
    /\ pc = "idle"
    /\ call = [op |-> "none", args |-> EmptyDict]
    /\ sent = <<>>
    /\ outcome = "none"
    /\ response = NoReply
    /\ gen = "none"
    /\ conn = "none"
    /\ opened = 0
    /\ yielded = <<>>
    /\ pos = 1

Next ==
    \/ text_generation
    \/ generate_text_stream
    \/ StreamStart
    \/ StreamNext
    \/ StreamClose
    \/ create_txt2audio
    \/ result_txt2audio
    \/ get_models
    \/ create_txt2img
    \/ result_txt2img
    \/ Discard

Spec == Init /\ [][Next]_vars

---------------------------------------------------------------------------
(* The properties. *)

IsOp(op) == pc = "called" /\ call.op = op

\* a 2xx status
Is2xx(status) == 200 <= status /\ status < 300

\* a messages value as the contract accepts it: a list of dicts with exactly
\* the keys role and content and one of the three roles
AcceptedMessages(m) ==
    /\ m.isList
    /\ \A i \in 1..Len(m.items) :
        /\ m.items[i].isDict
        /\ DOMAIN m.items[i].d = {"role", "content"}
        /\ m.items[i].d["role"] \in {"system", "user", "assistant"}

\* the allow-list of a model's keyword arguments, as the contract states it
AllowList(model) ==
    IF model \in {"audiogen", "musicgen"} THEN {"duration", "top_k", "top_p"} ELSE {}

\* C1: text_generation posts a request if and only if messages is a list of
\* records with exactly the keys role and content and an accepted role; every
\* other messages value fails with ValueError and sends no request.
C1_TextGenerationValidates ==
    IsOp("text_generation") =>
        LET m == call.args.messages IN
        /\ (sent # <<>>) <=> AcceptedMessages(m)
        /\ ~AcceptedMessages(m) => (outcome = "ValueError" /\ sent = <<>>)

\* C2: for audiogen, musicgen and bark, create_txt2audio fails with ValueError
\* and sends nothing when a kwarg key is outside the model's allow-list, and
\* raises no ValueError of its validation when every key is inside it.
C2_AudioKwargsAllowList ==
    (IsOp("create_txt2audio") /\ call.args.model \in {"audiogen", "musicgen", "bark"}) =>
        LET model == call.args.model
            keys == DOMAIN call.args.kwargs
        IN
        /\ ~(keys \subseteq AllowList(model)) => (outcome = "ValueError" /\ sent = <<>>)
        /\ (model = "bark" /\ keys # {}) => (outcome = "ValueError" /\ sent = <<>>)
        /\ (keys \subseteq AllowList(model)) => (outcome # "ValueError" /\ Len(sent) = 1)

C2_Witness ==
    /\ IsOp("create_txt2audio")
    /\ call.args.model = "bark"
    /\ DOMAIN call.args.kwargs = {"duration"}
    /\ outcome = "ValueError"
    /\ sent = <<>>

\* C3: for audiogen and musicgen with allowed kwargs the posted configs has
\* exactly the keys model, duration, top_k, top_p, each of the three holding
\* the caller's value when supplied and the default (5, 15, 0.9) otherwise,
\* and model the model argument; for bark without kwargs it is {model: bark}.
C3_AudioConfigsBackfilled ==
    IsOp("create_txt2audio") =>
        LET model == call.args.model
            kwargs == call.args.kwargs
            default == [duration |-> 5, top_k |-> 15, top_p |-> "0.9"]
        IN
        /\ (model \in {"audiogen", "musicgen"}
              /\ DOMAIN kwargs \subseteq {"duration", "top_k", "top_p"}) =>
            /\ Len(sent) = 1
            /\ DOMAIN sent[1].json.configs = {"model", "duration", "top_k", "top_p"}
            /\ sent[1].json.configs["model"] = model
            /\ \A k \in {"duration", "top_k", "top_p"} :
                sent[1].json.configs[k] = IF k \in DOMAIN kwargs THEN kwargs[k] ELSE default[k]
        /\ (model = "bark" /\ DOMAIN kwargs = {}) =>
            /\ Len(sent) = 1
            /\ sent[1].json.configs = [model |-> "bark"]

C3_Witness ==
    /\ IsOp("create_txt2audio")
    /\ call.args.model = "musicgen"
    /\ call.args.kwargs = [top_k |-> 99]
    /\ Len(sent) = 1
    /\ sent[1].json.configs = [model |-> "musicgen", duration |-> 5, top_k |-> 99, top_p |-> "0.9"]

\* C4: get_models issues a GET to {base}/models/{task} if and only if task is
\* one of the five task names; any other task fails with ValueError and the
\* call sends zero requests.
C4_GetModelsValidatesTask ==
    IsOp("get_models") =>
        LET task == call.args.task
            known == task \in {"image_generation", "video_generation", "text_completion",
                               "audio_generation", "text_embedding"}
        IN
        /\ (sent # <<>>) <=> known
        /\ known =>
            /\ Len(sent) = 1
            /\ sent[1].method = "GET"
            /\ sent[1].url = <<base_url, "models", task>>
        /\ ~known => (outcome = "ValueError" /\ Len(sent) = 0)

C4_Witness ==
    /\ IsOp("get_models")
    /\ call.args.task = "bogus"
    /\ outcome = "ValueError"
    /\ Len(sent) = 0

\* C5: create_txt2img posts {prompt, configs} where configs has exactly the
\* keys model, lora, width, height, steps, seed, negative_prompt,
\* enhance_prompt, each holding the argument of the same name, the default
\* standing in only for an omitted argument.
C5_Txt2ImgConfigsNamed ==
    IsOp("create_txt2img") =>
        LET passed == call.args.passed
            default == [model |-> "sdxl-lightning", lora |-> "", width |-> 1024,
                        height |-> 1024, steps |-> 8, seed |-> -1,
                        negative_prompt |-> "", enhance_prompt |-> FALSE]
        IN
        /\ Len(sent) = 1
        /\ DOMAIN sent[1].json = {"prompt", "configs"}
        /\ DOMAIN sent[1].json.configs =
              {"model", "lora", "width", "height", "steps", "seed", "negative_prompt",
               "enhance_prompt"}
        /\ \A k \in DOMAIN default :
              sent[1].json.configs[k] = IF k \in DOMAIN passed THEN passed[k] ELSE default[k]

PlainOps == {"text_generation", "create_txt2audio", "result_txt2audio", "get_models",
             "create_txt2img", "result_txt2img"}

\* a plain call that has got an answer with a status from the transport
PlainAnswered ==
    /\ pc = "called"
    /\ call.op \in PlainOps
    /\ sent # <<>>
    /\ ~response.failed

\* C6 as stated: a non-streaming call whose response has a non-2xx status
\* ends in a transport error, never returns the decoded body, and sends
\* exactly one request.
C6_Non2xxRaises ==
    (PlainAnswered /\ ~Is2xx(response.status)) =>
        /\ outcome = "HTTPError"
        /\ Len(sent) = 1

\* C6 as amended: a non-streaming call that passes its validation sends
\* exactly one request and does not look at the status: it returns the decoded
\* body exactly when the body decodes as JSON, whatever the status, raises the
\* decode error when it does not, and lets a failure of the transport through;
\* it never raises an error for the status.
C6_StatusNotInspected ==
    (pc = "called" /\ call.op \in PlainOps /\ sent # <<>>) =>
        /\ Len(sent) = 1
        /\ outcome # "HTTPError"
        /\ response.failed => outcome = "ConnectionError"
        /\ ~response.failed =>
            /\ (outcome = "returned") <=> response.is_json
            /\ (outcome = "JSONDecodeError") <=> ~response.is_json

C6_Witness ==
    /\ PlainAnswered
    /\ call.op = "result_txt2audio"
    /\ response.status = 404
    /\ response.is_json
    /\ outcome = "returned"
    /\ Len(sent) = 1

\* the non-empty lines of a body, in their order
NonEmptyLines(lines) == SelectSeq(lines, LAMBDA l : l # "")

IsPrefix(s, t) == Len(s) <= Len(t) /\ SubSeq(t, 1, Len(s)) = s

\* the streamed call has got an answer with a status from the transport
StreamAnswered ==
    /\ IsOp("generate_text_stream")
    /\ sent # <<>>
    /\ ~response.failed

\* C7 as stated: the lines produced are the non-empty lines of the body in
\* order, and a response with a non-2xx status makes the generator raise
\* before it yields any line.
C7_Non2xxRaisesBeforeLines ==
    /\ (StreamAnswered /\ gen = "finished") => yielded = NonEmptyLines(response.lines)
    /\ (StreamAnswered /\ ~Is2xx(response.status)) =>
          (outcome = "HTTPError" /\ yielded = <<>>)

\* C7 as amended: the lines produced are always a prefix of the non-empty
\* lines of the body, in order, and all of them once the body has ended; a
\* response with a 4xx or 5xx status makes the generator raise before it
\* yields any line, and a response with any other status raises no error for
\* its status.
C7_StreamYieldsNonEmptyLines ==
    IsOp("generate_text_stream") =>
        /\ IsPrefix(yielded, NonEmptyLines(response.lines))
        /\ gen = "finished" => yielded = NonEmptyLines(response.lines)
        /\ gen = "suspended" => yielded # <<>>
        /\ (StreamAnswered /\ response.status \in 400..599) =>
              (outcome = "HTTPError" /\ gen = "raised" /\ yielded = <<>>)
        /\ outcome = "HTTPError" => (StreamAnswered /\ response.status \in 400..599)

C7_Witness ==
    /\ IsOp("generate_text_stream")
    /\ gen = "finished"
    /\ response.status = 200
    /\ response.lines = <<"a", "", "b">>
    /\ yielded = <<"a", "b">>

\* C8: generate_text_stream opens at most one connection, and once the
\* iteration has ended (the lines are exhausted, the caller closed or
\* abandoned the generator, or an error was raised) the connection is closed:
\* a connection is open only while the generator is suspended at a yield.
C8_ConnectionReleased ==
    /\ opened <= 1
    /\ conn = "open" => (IsOp("generate_text_stream") /\ gen = "suspended")
    /\ (IsOp("generate_text_stream") /\ gen \in {"finished", "raised", "closed"}) =>
          conn = IF opened = 0 THEN "none" ELSE "closed"

C8_Witness ==
    /\ IsOp("generate_text_stream")
    /\ gen = "closed"
    /\ conn = "closed"
    /\ opened = 1
    /\ yielded = <<"a">>
    /\ response.lines = <<"a", "b", "b">>

\* C9: generate_text_stream validates as text_generation does: running it
\* raises for a messages value exactly the exception text_generation raises
\* for it, a ValueError exactly when text_generation raises one, and for a
\* messages value that does not pass no request is sent and no connection is
\* opened, at the call or while its generator is consumed.
C9_StreamValidatesAsTextGeneration ==
    IsOp("generate_text_stream") =>
        LET m == call.args.messages IN
        /\ outcome # "generator" =>
              ((outcome = "ValueError") <=> (TextGenerationCheck(m) = "ValueError"))
        /\ TextGenerationCheck(m) # "ok" =>
              /\ outcome \in {"generator", TextGenerationCheck(m)}
              /\ sent = <<>>
              /\ opened = 0
              /\ conn = "none"
        /\ (TextGenerationCheck(m) = "ok" /\ gen \notin {"created", "closed"}) => Len(sent) = 1
        /\ opened > 0 => sent # <<>>

C9_Witness ==
    /\ IsOp("generate_text_stream")
    /\ gen = "raised"
    /\ outcome = "ValueError"
    /\ call.args.messages.isList
    /\ Len(call.args.messages.items) = 1
    /\ call.args.messages.items[1].d = [role |-> "tool", content |-> "Hello"]
    /\ sent = <<>>
    /\ conn = "none"

\* C10: create_txt2audio sends a request only for audiogen, musicgen and
\* bark: for any other model, with or without kwargs, it fails with
\* ValueError and sends no request.
C10_AudioModelValidated ==
    (IsOp("create_txt2audio") /\ call.args.model \notin {"audiogen", "musicgen", "bark"}) =>
        /\ outcome = "ValueError"
        /\ sent = <<>>

\* C11: no call of a facade method changes the headers dict it is given or the
\* shared default headers dict: after any sequence of calls, whatever their
\* headers and outcomes, the default dict is still empty and the caller's dict
\* is as the caller filled it, so a call without headers sends an empty header
\* set and a call with headers sends the caller's; between calls nothing of a
\* call is left but the unchanged base URL.
C11_HeadersNeverMutated ==
    /\ default_headers = EmptyDict
    /\ caller_headers = SuppliedHeaders
    /\ base_url = "https://api"
    /\ pc = "called" =>
        \A i \in 1..Len(sent) :
            sent[i].headers = IF call.args.headers.given THEN SuppliedHeaders ELSE EmptyDict
    /\ pc = "idle" =>
        /\ call = [op |-> "none", args |-> EmptyDict]
        /\ sent = <<>>
        /\ outcome = "none"
        /\ response = NoReply
        /\ gen = "none"
        /\ conn = "none"
        /\ opened = 0
        /\ yielded = <<>>

C11_Witness ==
    /\ IsOp("text_generation")
    /\ earlier = {"omitted", "supplied"}
    /\ ~call.args.headers.given
    /\ outcome = "returned"
    /\ Len(sent) = 1
    /\ sent[1].headers = EmptyDict
    /\ default_headers = EmptyDict

====
